---- MODULE Spec2Model ----
(* Model of the storyboard generation pipeline: the TaskQueue scheduler,   *)
(* the per-scene job closure built by generateAll (hash, cache lookup,     *)
(* retry loop, cache store, finally block), the image cache and the user   *)
(* handlers that drive them (Generate, Cancel, Reset, Analyze, the         *)
(* concurrency input).  Every await of the job closure is one action.      *)
EXTENDS Integers, Sequences, FiniteSets, TLC

(***************************************************************************)
(* Bounds                                                                  *)
(***************************************************************************)
MaxScenes  == 3   \* longest scene list of a single generation run
MaxTasks   == 2   \* closures pushed in all when runs may follow one another
MaxCeiling == 2   \* largest concurrency ceiling entered
MaxRetry   == 1   \* largest retryCount entered
NumPrompts == 2   \* distinct prompt texts
NumImages  == 2   \* distinct images the provider may return
NumMsgs    == 1   \* distinct provider error messages
MaxBackoffScenes == 2   \* longest scene list of a run with long retry chains
MaxBackoffRetry  == 2   \* largest retryCount of such a run
MaxWideScenes    == 4   \* longest scene list of a run under a wide ceiling
MaxWideCeiling   == 3   \* largest concurrency ceiling of such a run

MaxClockScenes   == 3   \* longest scene list of a run against the clock
MaxTicks         == 3   \* clock readings after the first, TimeUnit apart
MaxRunTasks      == 3   \* closures pushed by successive uncancelled runs
NumModels        == 2   \* image models offered by the select
MaxFetchRetries  == 4   \* largest retries argument of fetchJSON
MaxFetchCalls    == 2   \* fetchJSON calls following one another
MaxJobs          == 2   \* runJob operations in flight at once
MaxDrops         == 2   \* handleFileDrop operations in flight at once
MaxFiles         == 2   \* dropped files appended to the script

DefaultRetryDelay == 1500   \* useState(1500)
TimeUnit == 100             \* ms between two readings of performance.now()

Prompts == 1..NumPrompts
Images  == 1..NumImages
Msgs    == 1..NumMsgs
Null    == 0      \* JS null / the empty string ''

RECURSIVE SeqsUpTo(_, _)
SeqsUpTo(S, n) ==
  IF n = 0 THEN {<< >>}
  ELSE LET R == SeqsUpTo(S, n - 1)
       IN  R \cup {Append(r, x) : r \in {r0 \in R : Len(r0) = n - 1}, x \in S}

\* the non-empty scene lists analyze() may deliver, up to n scenes
PredictedValues(n) == SeqsUpTo(Prompts, n) \ {<< >>}
\* what the Retries input can hold: +e.target.value||0
RetryValues == (-1)..MaxRetry
\* what the Retry Delay input can hold: +e.target.value||1500
DelayValues == {100, DefaultRetryDelay}
\* what the Concurrency input can hold: +e.target.value||1 (0 becomes 1)
ConcurrencyValues == {-1} \cup 1..MaxCeiling

VARIABLES
  max, running, q,   \* TaskQueue fields; q holds task ids, head first
  tasks,             \* every closure ever pushed, in push order
  admitted,          \* task ids in the order tick invoked them
  predicted,         \* scene list under review (<< >> when null)
  scenes,            \* scene records shown on the storyboard
  busy, genCount, finishedAt,
  analyzing,         \* analyze() calls awaiting callText
  batch,             \* generateAll runs so far
  cache,             \* the 'images' object store: key -> image or Null
  cancelled,         \* tasks pushed and not yet settled when Cancel was clicked
  genAtCancel,       \* tasks generating or retrying when Cancel was clicked
  now,               \* performance.now(), in ms
  startedAt,
  avgMsPerImg,       \* the memoised average, as [ms, images]
  imageModel,        \* the model selected in the config panel
  cacheModel,        \* for each stored image, the model that generated it
  fj,                \* src/App.jsx: the fetchJSON call in progress
  ui                 \* src/App.jsx: isProcessing and the operations in flight

vars == << max, running, q, tasks, admitted, predicted, scenes, busy,
           genCount, finishedAt, analyzing, batch, cache, cancelled, genAtCancel,
           now, startedAt, avgMsPerImg, imageModel, cacheModel, fj, ui >>

\* the state of the storyboard app alone
studioVars == << max, running, q, tasks, admitted, predicted, scenes, busy,
                 genCount, finishedAt, analyzing, batch, cache, cancelled,
                 genAtCancel, now, startedAt, avgMsPerImg, imageModel, cacheModel >>

(***************************************************************************)
(* Pure helpers                                                            *)
(***************************************************************************)
sha256Constant(text) == ""

\* sha256: the digest, treated as injective on its input text
sha256(text) == text

\* promptText and keyRaw of a scene job (no reference image loaded)
promptText(prompt) == << prompt, "", "Cinematic Photorealistic" >>
keyRaw(prompt) == << promptText(prompt), "" >>
ckeyOf(prompt) == sha256(keyRaw(prompt))

Keys == { ckeyOf(p) : p \in Prompts }

idbGetMiss(c, key) == Null

idbSetLost(c, key, value) == c

\* idb.get: req.onsuccess resolves req.result || null
idbGet(c, key) == c[key]

\* idb.set: objectStore('images').put(value, key), committed at tx.oncomplete
idbSet(c, key, value) == [ c EXCEPT ![key] = value ]

\* Math.max(1, n)
MathMax1(n) == IF n > 1 THEN n ELSE 1

NewScene(p) ==
  [ prompt |-> p, status |-> "queued", image |-> Null, error |-> Null,
    t0 |-> 0, t1 |-> 0, tries |-> 0 ]

\* the memo returned null
NoAvg == [ ms |-> 0, images |-> 0 ]

avgMemoSinceLoad(sa, gc, t) ==
  IF sa = Null \/ gc = 0 THEN NoAvg ELSE [ ms |-> t, images |-> gc ]

\* avgMsPerImg: if (!startedAt || genCount === 0) return null;
\* (performance.now() - startedAt) / genCount, kept as the pair of both terms
avgMemo(sa, gc, t) ==
  IF sa = Null \/ gc = 0 THEN NoAvg ELSE [ ms |-> t - sa, images |-> gc ]

updateFirstOpen(sc, idx, patch) ==
  LET open == { i \in DOMAIN sc : sc[i].status \notin {"success", "error"} }
  IN  [ i \in DOMAIN sc |->
          IF i \in open /\ \A k \in open : i <= k
          THEN [ f \in DOMAIN sc[i] |-> IF f \in DOMAIN patch THEN patch[f] ELSE sc[i][f] ]
          ELSE sc[i] ]

\* update(patch): setScenes(prev => prev.map(s => s.id===idx ? {...s, ...patch} : s))
update(sc, idx, patch) ==
  [ i \in DOMAIN sc |->
      IF i = idx
      THEN [ f \in DOMAIN sc[i] |-> IF f \in DOMAIN patch THEN patch[f] ELSE sc[i][f] ]
      ELSE sc[i] ]

(***************************************************************************)
(* TaskQueue                                                               *)
(***************************************************************************)
\* the queue-side state tick works on
QState == [ max |-> max, running |-> running, q |-> q, tasks |-> tasks,
            admitted |-> admitted ]

RECURSIVE tickOverCeiling(_)
tickOverCeiling(s) ==
  IF s.running <= s.max /\ Len(s.q) > 0
  THEN LET t == Head(s.q)
       IN  tickOverCeiling([ s EXCEPT !.q = Tail(@),
                                      !.running = @ + 1,
                                      !.tasks[t].pc = "hash",
                                      !.admitted = Append(@, t) ])
  ELSE s

RECURSIVE tickLifo(_)
tickLifo(s) ==
  IF s.running < s.max /\ Len(s.q) > 0
  THEN LET t == s.q[Len(s.q)]
       IN  tickLifo([ s EXCEPT !.q = SubSeq(@, 1, Len(@) - 1),
                               !.running = @ + 1,
                               !.tasks[t].pc = "hash",
                               !.admitted = Append(@, t) ])
  ELSE s

RECURSIVE tickNoShift(_, _)
tickNoShift(s, k) ==
  IF s.running < s.max /\ Len(s.q) >= k
  THEN LET t == s.q[k]
       IN  tickNoShift([ s EXCEPT !.running = @ + 1,
                                  !.tasks[t].pc = "hash",
                                  !.admitted = Append(@, t) ], k)
  ELSE s

tickPeek(s) == tickNoShift(s, 1)

\* tick(): while (running < max && q.length) { t = q.shift(); running++; t()... }
\* invoking t runs the closure up to its first await (sha256)
RECURSIVE tick(_)
tick(s) ==
  IF s.running < s.max /\ Len(s.q) > 0
  THEN LET t == Head(s.q)
       IN  tick([ s EXCEPT !.q = Tail(@),
                           !.running = @ + 1,
                           !.tasks[t].pc = "hash",
                           !.admitted = Append(@, t) ])
  ELSE s

pushNoTick(s, task) ==
  LET id == Len(s.tasks) + 1
  IN  [ s EXCEPT !.tasks = Append(@, task), !.q = Append(@, id) ]

\* push(task) { q.push(task); tick(); }
push(s, task) ==
  LET id == Len(s.tasks) + 1
  IN  tick([ s EXCEPT !.tasks = Append(@, task), !.q = Append(@, id) ])

setMaxNoTick(s, n) == [ s EXCEPT !.max = MathMax1(n) ]

setMaxRecount(s, n) == tick([ s EXCEPT !.max = MathMax1(n), !.running = 0 ])

\* setMax(n) { max = Math.max(1, n); tick(); }
setMax(s, n) == tick([ s EXCEPT !.max = MathMax1(n) ])

\* clear() { q.length = 0; }
RECURSIVE dropAll(_, _)
dropAll(ts, ids) ==
  IF ids = << >> THEN ts
  ELSE dropAll([ ts EXCEPT ![Head(ids)].pc = "dropped" ], Tail(ids))

clearAndRecount(s) ==
  [ s EXCEPT !.q = << >>, !.tasks = dropAll(@, s.q), !.running = 0 ]

clear(s) == [ s EXCEPT !.q = << >>, !.tasks = dropAll(@, s.q) ]

settleThen(s, rejects) ==
  IF rejects THEN s ELSE tick([ s EXCEPT !.running = @ - 1 ])

settleNoTick(s, rejects) == [ s EXCEPT !.running = @ - 1 ]

\* t().finally(() => { running--; tick(); }): runs whether t resolved or rejected
settle(s, rejects) == tick([ s EXCEPT !.running = @ - 1 ])

SetQueue(s) ==
  /\ max' = s.max
  /\ running' = s.running
  /\ q' = s.q
  /\ tasks' = s.tasks
  /\ admitted' = s.admitted

(***************************************************************************)
(* Initial states: the component has mounted and the setMax effect has     *)
(* applied the persisted concurrency.  Init: nothing analysed yet.         *)
(* InitBatch: analyze() has delivered a scene list for review.             *)
(***************************************************************************)
(***************************************************************************)
(* src/App.jsx: fetchJSON                                                  *)
(***************************************************************************)
DefaultRetries == 3
Backoff == 800

\* HTTP statuses a response may carry
StatusValues == {200, 404, 429, 500, 503}

\* res.ok
ResOk(status) == status >= 200 /\ status <= 299

\* res.status === 429 || res.status >= 500
Retryable(status) == status = 429 \/ status >= 500

\* backoff * Math.pow(1.7, i), exact for i up to 2 and rounded down beyond
RECURSIVE Pow(_, _)
Pow(b, e) == IF e = 0 THEN 1 ELSE b * Pow(b, e - 1)

waitMs(backoff, i) == (backoff * Pow(17, i)) \div Pow(10, i)

FetchIdle ==
  [ pc |-> "idle", retries |-> 0, i |-> 0, requests |-> 0, seen |-> << >>,
    slept |-> 0, result |-> "", calls |-> 0 ]

forCondInclusive(i, retries) == i <= retries

\* for (let i = 0; i < retries; i++)
forCond(i, retries) == i < retries

\* the loop head: either the next fetch is issued or the loop is left and
\* Error("Network unstable") is thrown
forHead(f) ==
  IF forCond(f.i, f.retries)
  THEN [ f EXCEPT !.pc = "fetching", !.requests = @ + 1 ]
  ELSE [ f EXCEPT !.pc = "thrown", !.result = "Network unstable" ]

\* fetchJSON(url, options, retries) is called
FetchCall ==
  /\ fj.pc \in {"idle", "returned", "thrown"}
  /\ fj.calls < MaxFetchCalls
  /\ \E r \in 0..MaxFetchRetries :
       fj' = forHead([ FetchIdle EXCEPT !.retries = r, !.calls = fj.calls + 1 ])
  /\ UNCHANGED << studioVars, ui >>

\* await fetch(url, options) resolved with a response of some status
FetchResponse ==
  /\ fj.pc = "fetching"
  /\ \E st \in StatusValues :
       LET f == [ fj EXCEPT !.seen = Append(@, st) ]
       IN  fj' = IF ResOk(st) THEN [ f EXCEPT !.pc = "returned", !.result = "json" ]
                 ELSE IF Retryable(st)
                 THEN [ f EXCEPT !.pc = "sleeping",
                                 !.slept = @ + waitMs(Backoff, f.i) ]
                 ELSE [ f EXCEPT !.pc = "thrown", !.result = "API error" ]
  /\ UNCHANGED << studioVars, ui >>

\* await fetch(url, options) rejected (no response): the TypeError propagates
FetchRejects ==
  /\ fj.pc = "fetching"
  /\ fj' = [ fj EXCEPT !.pc = "thrown", !.result = "TypeError" ]
  /\ UNCHANGED << studioVars, ui >>

\* await sleep(wait) elapsed: continue, i++
FetchSleepDone ==
  /\ fj.pc = "sleeping"
  /\ fj' = forHead([ fj EXCEPT !.i = @ + 1 ])
  /\ UNCHANGED << studioVars, ui >>

(***************************************************************************)
(* src/App.jsx: isProcessing, runJob and handleFileDrop                    *)
(***************************************************************************)
JobKinds == {"optimizeScript", "doGenerateScenePrompts", "doVariations"}

UiMounted ==
  [ isProcessing |-> FALSE, apiKey |-> FALSE, jobs |-> << >>, drops |-> 0,
    status |-> "Ready", files |-> 0 ]

\* the API key field is filled in or emptied
SetApiKey ==
  /\ ui' = [ ui EXCEPT !.apiKey = ~ui.apiKey ]
  /\ UNCHANGED << studioVars, fj >>

\* a button with disabled={isProcessing} is clicked and calls runJob(fn):
\* without a key runJob returns after the toast
RunJobStart ==
  /\ ~ui.isProcessing
  /\ Len(ui.jobs) < MaxJobs
  /\ \E k \in JobKinds :
       ui' = IF ~ui.apiKey THEN ui
             ELSE [ ui EXCEPT !.isProcessing = TRUE, !.jobs = Append(@, k) ]
  /\ UNCHANGED << studioVars, fj >>

\* fn() settled (resolved, or rejected and caught): finally
\* setIsProcessing(false); setStatus("Ready")
RunJobEnd ==
  /\ \E n \in DOMAIN ui.jobs :
       ui' = [ ui EXCEPT !.isProcessing = FALSE, !.status = "Ready",
                         !.jobs = SubSeq(@, 1, n - 1) \o SubSeq(@, n + 1, Len(@)) ]
  /\ UNCHANGED << studioVars, fj >>

\* a file is dropped on the window (the listener is always attached):
\* setIsProcessing(true); setStatus("Reading dropped file...")
DropStart ==
  /\ ui.drops < MaxDrops
  /\ ui' = [ ui EXCEPT !.isProcessing = TRUE, !.drops = @ + 1,
                       !.status = "Reading dropped file..." ]
  /\ UNCHANGED << studioVars, fj >>

\* extractFromFile settled: the text is appended or the error is toasted;
\* finally setIsProcessing(false); setStatus("Ready")
DropEnd ==
  /\ ui.drops > 0
  /\ \E loaded \in BOOLEAN :
       ui' = [ ui EXCEPT !.isProcessing = FALSE, !.drops = @ - 1,
                         !.status = "Ready",
                         !.files = IF loaded /\ @ < MaxFiles THEN @ + 1 ELSE @ ]
  /\ UNCHANGED << studioVars, fj >>

Mounted ==
  /\ max \in 1..MaxCeiling
  /\ running = 0
  /\ q = << >>
  /\ tasks = << >>
  /\ admitted = << >>
  /\ scenes = << >>
  /\ busy = FALSE
  /\ genCount = 0
  /\ finishedAt = Null
  /\ analyzing = 0
  /\ batch = 0
  /\ cache = [ k \in Keys |-> Null ]
  /\ cancelled = {}
  /\ genAtCancel = {}
  /\ now = TimeUnit
  /\ startedAt = Null
  /\ avgMsPerImg = NoAvg
  /\ imageModel = 1
  /\ cacheModel = [ k \in Keys |-> Null ]
  /\ fj = FetchIdle
  /\ ui = UiMounted

Init == Mounted /\ predicted = << >>

InitBatch == Mounted /\ predicted \in PredictedValues(MaxScenes)

(***************************************************************************)
(* User handlers                                                           *)
(***************************************************************************)
\* Concurrency input -> setMaxConcurrent(n) -> effect -> queue.setMax(n)
SetMaxTo(n) ==
  /\ SetQueue(setMax(QState, n))
  /\ UNCHANGED << predicted, scenes, busy, genCount, finishedAt,
                  analyzing, batch, cache, cancelled, genAtCancel,
                  now, startedAt, avgMsPerImg,
                  imageModel, cacheModel, fj, ui >>

SetMaxConcurrent == \E n \in ConcurrencyValues : SetMaxTo(n)

\* the same input, with ceilings up to MaxWideCeiling
SetMaxWide == \E n \in {-1} \cup 1..MaxWideCeiling : SetMaxTo(n)

\* analyze(): setBusy(true); setPredicted(null); await callText ...
AnalyzeStart ==
  /\ ~busy
  /\ analyzing = 0
  /\ analyzing' = analyzing + 1
  /\ busy' = TRUE
  /\ predicted' = << >>
  /\ UNCHANGED << max, running, q, tasks, admitted, scenes, genCount,
                  finishedAt, batch, cache, cancelled, genAtCancel,
                  now, startedAt, avgMsPerImg,
                  imageModel, cacheModel, fj, ui >>

\* ... callText returned: setPredicted(parsed) or catch; finally setBusy(false)
AnalyzeDone ==
  /\ analyzing > 0
  /\ analyzing' = analyzing - 1
  /\ busy' = FALSE
  /\ \/ \E p \in PredictedValues(MaxTasks) : predicted' = p
     \/ UNCHANGED predicted
  /\ UNCHANGED << max, running, q, tasks, admitted, scenes, genCount,
                  finishedAt, batch, cache, cancelled, genAtCancel,
                  now, startedAt, avgMsPerImg,
                  imageModel, cacheModel, fj, ui >>

\* Reset button
Reset ==
  /\ scenes' = << >>
  /\ predicted' = << >>
  /\ UNCHANGED << max, running, q, tasks, admitted, busy, genCount,
                  finishedAt, analyzing, batch, cache, cancelled, genAtCancel,
                  now, startedAt, avgMsPerImg,
                  imageModel, cacheModel, fj, ui >>

\* the closure submit(idx) pushes, with what it captures from the render
NewTask(b, idx, rc, rd) ==
  [ batch |-> b, idx |-> idx, prompt |-> predicted[idx],
    retryCount |-> rc, retryDelay |-> rd,
    genCount |-> genCount, total |-> Len(predicted),
    pc |-> "pending", attempt |-> 0, ok |-> FALSE,
    imageUrl |-> Null, errorMsg |-> Null,
    calls |-> 0,        \* callImage invocations made
    delay |-> 0,        \* ms passed to the last sleep
    slept |-> 0,        \* ms passed to sleep in all
    stored |-> FALSE,   \* idb.set resolved true
    model |-> imageModel,   \* the imageModel callImage was rendered with
    madeBy |-> Null ]       \* the model that generated imageUrl

\* for (let i=0;i<predicted.length;i++) submit(i);
RECURSIVE submitAll(_, _, _, _, _)
submitAll(s, b, i, rc, rd) ==
  IF i > Len(predicted) THEN s
  ELSE submitAll(push(s, NewTask(b, i, rc, rd)), b, i + 1, rc, rd)

\* generateAll(), reachable through a Generate button (predicted && !busy);
\* rc and rd are the retryCount and retryDelay of the render the handler
\* belongs to
generateAll(rc, rd) ==
  /\ Len(predicted) > 0
  /\ ~busy
  /\ SetQueue(submitAll(QState, batch + 1, 1, rc, rd))
  /\ batch' = batch + 1
  /\ busy' = TRUE
  /\ scenes' = [ i \in 1..Len(predicted) |-> NewScene(predicted[i]) ]
  /\ startedAt' = now
  /\ finishedAt' = Null
  /\ genCount' = 0
  /\ avgMsPerImg' = avgMemo(now, 0, now)
  /\ UNCHANGED << predicted, analyzing, cache, cancelled, genAtCancel, now,
                  imageModel, cacheModel, fj, ui >>

\* any run, while the closures pushed in all stay within MaxTasks
GenerateAll ==
  /\ Len(tasks) + Len(predicted) <= MaxTasks
  /\ \E rc \in RetryValues : generateAll(rc, DefaultRetryDelay)

\* the first run only
GenerateOnce ==
  /\ batch = 0
  /\ \E rc \in RetryValues : generateAll(rc, DefaultRetryDelay)

\* the first run, with any retry delay and retry counts up to MaxBackoffRetry
GenerateBackoff ==
  /\ batch = 0
  /\ \E rc \in (-1)..MaxBackoffRetry, rd \in DelayValues : generateAll(rc, rd)

\* the state a job is in, as its own closure last reported it
JobState(tk) ==
  CASE tk.pc \in {"pending", "dropped", "hash"} -> "queued"
    [] tk.pc = "get" -> "starting"
    [] tk.pc \in {"call", "set", "sleep"} ->
         IF tk.attempt > 1 THEN "retrying" ELSE "generating"
    [] tk.pc \in {"done", "rejected"} -> IF tk.ok THEN "success" ELSE "error"

\* Cancel button: queueRef.current.clear(); setBusy(false); setStatus('Cancelled.')
Cancel ==
  /\ busy
  /\ SetQueue(clear(QState))
  /\ busy' = FALSE
  /\ cancelled' = cancelled \cup
       { t \in DOMAIN tasks : tasks[t].pc \notin {"done", "rejected"} }
  /\ genAtCancel' = genAtCancel \cup
       { t \in DOMAIN tasks : JobState(tasks[t]) \in {"generating", "retrying"} }
  /\ UNCHANGED << predicted, scenes, genCount, finishedAt, analyzing, batch, cache,
                  now, startedAt, avgMsPerImg,
                  imageModel, cacheModel, fj, ui >>

(***************************************************************************)
(* The job closure, one action per await                                   *)
(***************************************************************************)
InFlight == { t \in DOMAIN tasks : tasks[t].pc \in {"hash", "get", "call", "set", "sleep"} }

\* the closure is suspended at its next await
Suspend(t, tk, sc) ==
  /\ SetQueue([ QState EXCEPT !.tasks[t] = tk ])
  /\ scenes' = sc
  /\ UNCHANGED << busy, genCount, finishedAt, avgMsPerImg >>

\* if (ok && genCount+1 === predicted.length), on the values the closure captured
BatchComplete(tk) == tk.ok /\ tk.genCount + 1 = tk.total

\* the finally block, then the promise settles and tick's .finally callback runs
Finish(t, tk, sc, rejects) ==
  /\ scenes' = update(sc, tk.idx,
                      [ status |-> IF tk.ok THEN "success" ELSE "error",
                        image  |-> tk.imageUrl,
                        error  |-> IF tk.ok THEN Null ELSE tk.errorMsg,
                        t1     |-> now ])
  /\ genCount' = IF tk.ok THEN genCount + 1 ELSE genCount
  /\ avgMsPerImg' = IF tk.ok THEN avgMemo(startedAt, genCount + 1, now) ELSE avgMsPerImg
  /\ finishedAt' = IF BatchComplete(tk) THEN now ELSE finishedAt
  /\ busy' = IF BatchComplete(tk) THEN FALSE ELSE busy
  /\ SetQueue(settle([ QState EXCEPT
         !.tasks[t] = [ tk EXCEPT !.pc = IF rejects THEN "rejected" ELSE "done" ] ],
         rejects))

LoopCondStrict(tk) == tk.attempt < tk.retryCount /\ ~tk.ok

\* while (attempt <= retryCount && !ok)
LoopCond(tk) == tk.attempt <= tk.retryCount /\ ~tk.ok

LoopGenerating(t, tk, sc) ==
  IF LoopCond(tk)
  THEN Suspend(t, [ tk EXCEPT !.attempt = @ + 1, !.calls = @ + 1, !.pc = "call" ],
               update(sc, tk.idx, [ status |-> "generating", tries |-> tk.attempt + 1 ]))
  ELSE Finish(t, tk, sc, FALSE)

LoopStaleTries(t, tk, sc) ==
  IF LoopCond(tk)
  THEN Suspend(t, [ tk EXCEPT !.attempt = @ + 1, !.calls = @ + 1, !.pc = "call" ],
               update(sc, tk.idx,
                      [ status |-> IF tk.attempt + 1 > 1 THEN "retrying" ELSE "generating",
                        tries  |-> tk.attempt ]))
  ELSE Finish(t, tk, sc, FALSE)

\* loop head: attempt++; update({status, tries}); await callImage(...)
Loop(t, tk, sc) ==
  IF LoopCond(tk)
  THEN Suspend(t, [ tk EXCEPT !.attempt = @ + 1, !.calls = @ + 1, !.pc = "call" ],
               update(sc, tk.idx,
                      [ status |-> IF tk.attempt + 1 > 1 THEN "retrying" ELSE "generating",
                        tries  |-> tk.attempt + 1 ]))
  ELSE Finish(t, tk, sc, FALSE)

\* sha256 resolved: update({status:'starting'}); await idb.get(ckey)
HashDone(t) ==
  /\ tasks[t].pc = "hash"
  /\ Suspend(t, [ tasks[t] EXCEPT !.pc = "get" ],
             update(scenes, tasks[t].idx, [ status |-> "starting", t0 |-> now ]))
  /\ UNCHANGED << predicted, analyzing, batch, cache, cancelled, genAtCancel, now, startedAt,
                  imageModel, cacheModel, fj, ui >>

\* idb.get resolved with req.result || null
GetDone(t) ==
  /\ tasks[t].pc = "get"
  /\ LET cached == idbGet(cache, ckeyOf(tasks[t].prompt))
     IN  IF cached # Null
         THEN Finish(t, [ tasks[t] EXCEPT !.imageUrl = cached, !.ok = TRUE,
                                          !.madeBy = cacheModel[ckeyOf(tasks[t].prompt)] ],
                     scenes, FALSE)
         ELSE Loop(t, tasks[t], scenes)
  /\ UNCHANGED << predicted, analyzing, batch, cache, cancelled, genAtCancel, now, startedAt,
                  imageModel, cacheModel, fj, ui >>

\* idb.get rejected (open or request error): nothing catches it before finally
GetFail(t) ==
  /\ tasks[t].pc = "get"
  /\ Finish(t, tasks[t], scenes, TRUE)
  /\ UNCHANGED << predicted, analyzing, batch, cache, cancelled, genAtCancel, now, startedAt,
                  imageModel, cacheModel, fj, ui >>

\* callImage and brandImage returned an image: await idb.set(ckey, branded)
CallOk(t) ==
  /\ tasks[t].pc = "call"
  /\ \E img \in Images :
       Suspend(t, [ tasks[t] EXCEPT !.imageUrl = img, !.ok = TRUE, !.pc = "set",
                                    !.madeBy = tasks[t].model ], scenes)
  /\ UNCHANGED << predicted, analyzing, batch, cache, cancelled, genAtCancel, now, startedAt,
                  imageModel, cacheModel, fj, ui >>

\* if (attempt <= retryCount) await sleep(retryDelay * attempt)
SleepCond(tk) == tk.attempt <= tk.retryCount

sleepMsFlat(retryDelay, attempt) == retryDelay

\* the argument of sleep: retryDelay * attempt
sleepMs(retryDelay, attempt) == retryDelay * attempt

CallFailEscapes(t) ==
  /\ tasks[t].pc = "call"
  /\ \E m \in Msgs : Finish(t, [ tasks[t] EXCEPT !.errorMsg = m ], scenes, TRUE)
  /\ UNCHANGED << predicted, analyzing, batch, cache, cancelled, genAtCancel, now, startedAt,
                  imageModel, cacheModel, fj, ui >>

\* callImage or brandImage threw: errorMsg = String(err); maybe sleep
CallFail(t) ==
  /\ tasks[t].pc = "call"
  /\ \E m \in Msgs :
       LET tk == [ tasks[t] EXCEPT !.errorMsg = m ]
       IN  IF SleepCond(tk)
           THEN Suspend(t, [ tk EXCEPT !.pc = "sleep",
                                       !.delay = sleepMs(tk.retryDelay, tk.attempt),
                                       !.slept = @ + sleepMs(tk.retryDelay, tk.attempt) ],
                        scenes)
           ELSE Loop(t, tk, scenes)
  /\ UNCHANGED << predicted, analyzing, batch, cache, cancelled, genAtCancel, now, startedAt,
                  imageModel, cacheModel, fj, ui >>

\* sleep elapsed: back to the loop head
SleepDone(t) ==
  /\ tasks[t].pc = "sleep"
  /\ Loop(t, tasks[t], scenes)
  /\ UNCHANGED << predicted, analyzing, batch, cache, cancelled, genAtCancel, now, startedAt,
                  imageModel, cacheModel, fj, ui >>

\* idb.set resolved true: the put is committed
SetStored(t) ==
  /\ tasks[t].pc = "set"
  /\ cache' = idbSet(cache, ckeyOf(tasks[t].prompt), tasks[t].imageUrl)
  /\ cacheModel' = idbSet(cacheModel, ckeyOf(tasks[t].prompt), tasks[t].madeBy)
  /\ Loop(t, [ tasks[t] EXCEPT !.stored = TRUE ], scenes)
  /\ UNCHANGED << predicted, analyzing, batch, cancelled, genAtCancel, now, startedAt,
                  imageModel, fj, ui >>

SetFailureEscapes(t) ==
  /\ tasks[t].pc = "set"
  /\ Finish(t, [ tasks[t] EXCEPT !.ok = FALSE ], scenes, TRUE)
  /\ UNCHANGED << predicted, analyzing, batch, cache, cancelled, genAtCancel, now, startedAt,
                  imageModel, cacheModel, fj, ui >>

\* idb.set resolved false (no IndexedDB) or rejected (.catch(()=>{})): nothing stored
SetNotStored(t) ==
  /\ tasks[t].pc = "set"
  /\ Loop(t, tasks[t], scenes)
  /\ UNCHANGED << predicted, analyzing, batch, cache, cancelled, genAtCancel, now, startedAt,
                  imageModel, cacheModel, fj, ui >>

\* any run, while the closures pushed in all stay within MaxRunTasks
GenerateRuns ==
  /\ Len(tasks) + Len(predicted) <= MaxRunTasks
  /\ \E rc \in RetryValues : generateAll(rc, DefaultRetryDelay)

\* Image Model select: onChange={e=>setImageModel(e.target.value)}
SetImageModel ==
  /\ \E m \in 1..NumModels : imageModel' = m
  /\ imageModel' # imageModel
  /\ UNCHANGED << max, running, q, tasks, admitted, predicted, scenes, busy,
                  genCount, finishedAt, analyzing, batch, cache, cancelled,
                  genAtCancel, now, startedAt, avgMsPerImg, cacheModel, fj, ui >>

\* every handler, runs following one another
Next ==
  \/ SetMaxConcurrent
  \/ AnalyzeStart
  \/ AnalyzeDone
  \/ Reset
  \/ GenerateAll
  \/ Cancel
  \/ \E t \in DOMAIN tasks : HashDone(t)
  \/ \E t \in DOMAIN tasks : GetDone(t)
  \/ \E t \in DOMAIN tasks : GetFail(t)
  \/ \E t \in DOMAIN tasks : CallOk(t)
  \/ \E t \in DOMAIN tasks : CallFail(t)
  \/ \E t \in DOMAIN tasks : SleepDone(t)
  \/ \E t \in DOMAIN tasks : SetStored(t)
  \/ \E t \in DOMAIN tasks : SetNotStored(t)

Spec == Init /\ [][Next]_vars

\* one generation run of a reviewed list of up to MaxScenes scenes
NextBatch ==
  \/ SetMaxConcurrent
  \/ GenerateOnce
  \/ Cancel
  \/ \E t \in DOMAIN tasks : HashDone(t)
  \/ \E t \in DOMAIN tasks : GetDone(t)
  \/ \E t \in DOMAIN tasks : GetFail(t)
  \/ \E t \in DOMAIN tasks : CallOk(t)
  \/ \E t \in DOMAIN tasks : CallFail(t)
  \/ \E t \in DOMAIN tasks : SleepDone(t)
  \/ \E t \in DOMAIN tasks : SetStored(t)
  \/ \E t \in DOMAIN tasks : SetNotStored(t)

SpecBatch == InitBatch /\ [][NextBatch]_vars

\* one generation run under a ceiling that is not touched
NextFixed ==
  \/ GenerateOnce
  \/ Cancel
  \/ \E t \in DOMAIN tasks : HashDone(t)
  \/ \E t \in DOMAIN tasks : GetDone(t)
  \/ \E t \in DOMAIN tasks : GetFail(t)
  \/ \E t \in DOMAIN tasks : CallOk(t)
  \/ \E t \in DOMAIN tasks : CallFail(t)
  \/ \E t \in DOMAIN tasks : SleepDone(t)
  \/ \E t \in DOMAIN tasks : SetStored(t)
  \/ \E t \in DOMAIN tasks : SetNotStored(t)

SpecFixed == InitBatch /\ [][NextFixed]_vars

\* one generation run of a short list with long retry chains
InitBackoff == Mounted /\ predicted \in PredictedValues(MaxBackoffScenes)

NextBackoff ==
  \/ GenerateBackoff
  \/ Cancel
  \/ \E t \in DOMAIN tasks : HashDone(t)
  \/ \E t \in DOMAIN tasks : GetDone(t)
  \/ \E t \in DOMAIN tasks : GetFail(t)
  \/ \E t \in DOMAIN tasks : CallOk(t)
  \/ \E t \in DOMAIN tasks : CallFail(t)
  \/ \E t \in DOMAIN tasks : SleepDone(t)
  \/ \E t \in DOMAIN tasks : SetStored(t)
  \/ \E t \in DOMAIN tasks : SetNotStored(t)

SpecBackoff == InitBackoff /\ [][NextBackoff]_vars

\* one generation run of a longer list, every scene with the same prompt,
\* under ceilings up to MaxWideCeiling
InitWide == Mounted /\ predicted \in SeqsUpTo({1}, MaxWideScenes) \ {<< >>}

NextWide ==
  \/ SetMaxWide
  \/ GenerateOnce
  \/ \E t \in DOMAIN tasks : HashDone(t)
  \/ \E t \in DOMAIN tasks : GetDone(t)
  \/ \E t \in DOMAIN tasks : GetFail(t)
  \/ \E t \in DOMAIN tasks : CallOk(t)
  \/ \E t \in DOMAIN tasks : CallFail(t)
  \/ \E t \in DOMAIN tasks : SleepDone(t)
  \/ \E t \in DOMAIN tasks : SetStored(t)
  \/ \E t \in DOMAIN tasks : SetNotStored(t)

SpecWide == InitWide /\ [][NextWide]_vars

\* completed, total: scenes.filter(s => s.status==='success').length,
\* scenes.length || predicted?.length || 0
completed == Cardinality({ i \in DOMAIN scenes : scenes[i].status = "success" })
total == IF Len(scenes) # 0 THEN Len(scenes) ELSE Len(predicted)

\* Math.round(a / b) for b > 0
MathRound(a, b) == (2 * a + b) \div (2 * b)
MathMax0(n) == IF n > 0 THEN n ELSE 0

\* eta returned null
NoEta == -1

etaFloor ==
  IF avgMsPerImg = NoAvg \/ avgMsPerImg.ms = 0 \/ total = 0 THEN NoEta
  ELSE MathMax0(((total - completed) * avgMsPerImg.ms) \div (avgMsPerImg.images * 1000))

\* eta: if (!avgMsPerImg || total===0) return null;
\* Math.max(0, Math.round((remaining * avgMsPerImg)/1000))
eta ==
  IF avgMsPerImg = NoAvg \/ avgMsPerImg.ms = 0 \/ total = 0 THEN NoEta
  ELSE MathMax0(MathRound((total - completed) * avgMsPerImg.ms,
                          avgMsPerImg.images * 1000))

\* time passes between two handlers
Tick ==
  /\ now < (MaxTicks + 1) * TimeUnit
  /\ now' = now + TimeUnit
  /\ UNCHANGED << max, running, q, tasks, admitted, predicted, scenes, busy,
                  genCount, finishedAt, analyzing, batch, cache, cancelled,
                  genAtCancel, startedAt, avgMsPerImg,
                  imageModel, cacheModel, fj, ui >>

\* one generation run against the clock, every scene with the same prompt
InitClock == Mounted /\ predicted \in SeqsUpTo({1}, MaxClockScenes) \ {<< >>}

NextClock ==
  \/ Tick
  \/ GenerateOnce
  \/ \E t \in DOMAIN tasks : HashDone(t)
  \/ \E t \in DOMAIN tasks : GetDone(t)
  \/ \E t \in DOMAIN tasks : GetFail(t)
  \/ \E t \in DOMAIN tasks : CallOk(t)
  \/ \E t \in DOMAIN tasks : CallFail(t)
  \/ \E t \in DOMAIN tasks : SleepDone(t)
  \/ \E t \in DOMAIN tasks : SetStored(t)
  \/ \E t \in DOMAIN tasks : SetNotStored(t)

SpecClock == InitClock /\ [][NextClock]_vars

\* the next continuation of task t: every await of the closure settles
JobStep(t) ==
  /\ t \in DOMAIN tasks
  /\ \/ HashDone(t)
     \/ GetDone(t)
     \/ GetFail(t)
     \/ CallOk(t)
     \/ CallFail(t)
     \/ SleepDone(t)
     \/ SetStored(t)
     \/ SetNotStored(t)

\* one generation run in which every pending await eventually settles
SpecFair == SpecFixed /\ \A t \in 1..MaxScenes : WF_vars(JobStep(t))

(***************************************************************************)
(* Properties                                                              *)
(***************************************************************************)
Settled(tk) == tk.pc \in {"done", "rejected"}

SceneOf(t) == scenes[tasks[t].idx]

\* no image call has returned yet and nothing was cancelled
NoneCompleted ==
  /\ tasks # << >>
  /\ \A t \in DOMAIN tasks :
       tasks[t].pc \in {"pending", "hash", "get", "call"} /\ tasks[t].attempt <= 1

\* C1: under a ceiling k that is not changed, at most k tasks are invoked and
\* not yet completed; and while none of n >= k pushed tasks has completed,
\* exactly k tasks are invoked, their jobs starting or generating once the hash
\* is computed, and the other n-k stay pending with their jobs queued.
C1_CeilingRespected ==
  /\ Cardinality(InFlight) <= max
  /\ (NoneCompleted /\ Len(tasks) >= max) =>
       /\ Cardinality(InFlight) = max
       /\ Len(q) = Len(tasks) - max
       /\ \A t \in DOMAIN tasks :
            /\ tasks[t].pc = "pending" => SceneOf(t).status = "queued"
            /\ tasks[t].pc \in {"get", "call"} =>
                 SceneOf(t).status \in {"starting", "generating"}

C1_Witness ==
  /\ NoneCompleted
  /\ max = 2
  /\ Len(tasks) = 3
  /\ Len(q) = 1
  /\ \A t \in InFlight : tasks[t].pc = "call"

\* C2: with retryCount >= 0 a job never makes more than retryCount + 1 image
\* calls, and a job that missed the cache and ends in error has made exactly
\* retryCount + 1 of them.
C2_RetryBound ==
  \A t \in DOMAIN tasks :
    tasks[t].retryCount >= 0 =>
      /\ tasks[t].calls <= tasks[t].retryCount + 1
      /\ (tasks[t].pc = "done" /\ ~tasks[t].ok) =>
           /\ tasks[t].calls = tasks[t].retryCount + 1
           /\ SceneOf(t).status = "error"
           /\ SceneOf(t).tries = tasks[t].retryCount + 1

C2_Witness ==
  \E t \in DOMAIN tasks :
    /\ tasks[t].retryCount = 1
    /\ tasks[t].pc = "done"
    /\ ~tasks[t].ok
    /\ tasks[t].calls = 2

\* two jobs of the same key run one after the other: ceiling 1, t1 before t2,
\* t1 ended in success
InSequence(t1, t2) ==
  /\ max = 1
  /\ t1 < t2
  /\ tasks[t1].prompt = tasks[t2].prompt
  /\ tasks[t1].pc = "done"
  /\ tasks[t1].ok

\* the second job resolves from the cache: no image call, never generating or
\* retrying, success with zero attempts
FromCache(t1, t2) ==
  /\ tasks[t2].calls = 0
  /\ JobState(tasks[t2]) \notin {"generating", "retrying"}
  /\ tasks[t2].pc = "done" =>
       /\ tasks[t2].ok
       /\ tasks[t2].attempt = 0
       /\ SceneOf(t2).tries = 0

\* C3 as stated: the same job submitted twice in sequence makes the second
\* job resolve from the cache, whatever happened to the first job's store.
C3_SecondAlwaysCached ==
  \A t1, t2 \in DOMAIN tasks : InSequence(t1, t2) => FromCache(t1, t2)

\* C3 as amended: when the first job's idb.set stored its result, the second
\* job makes no image call and, if its lookup returns, ends in success with
\* zero attempts and the first job's image.
C3_SecondCachedWhenStored ==
  \A t1, t2 \in DOMAIN tasks :
    (InSequence(t1, t2) /\ tasks[t1].stored) =>
      /\ FromCache(t1, t2)
      /\ tasks[t2].pc = "done" => tasks[t2].imageUrl = tasks[t1].imageUrl

C3_Witness ==
  \E t1, t2 \in DOMAIN tasks :
    /\ InSequence(t1, t2)
    /\ tasks[t1].stored
    /\ tasks[t1].calls = 1
    /\ tasks[t2].pc = "done"
    /\ tasks[t2].ok
    /\ tasks[t2].calls = 0
    /\ SceneOf(t2).status = "success"

\* C4: a job that was queued when Cancel was clicked stays queued (the code
\* has no cancelled state) and its image call is never made.
C4_QueuedNeverStarts ==
  [][ \A t \in cancelled :
        JobState(tasks[t]) = "queued" =>
          (JobState(tasks'[t]) = "queued" /\ tasks'[t].calls = 0) ]_vars

\* C5: a runner that was in flight when Cancel was clicked consumes no retry
\* afterwards: once it has made an attempt it starts no further one.
C5_NoRetryAfterCancel ==
  [][ \A t \in cancelled :
        tasks[t].attempt >= 1 => tasks'[t].calls = tasks[t].calls ]_vars

\* C6: once a new run has started, no pending task of an earlier run is
\* invoked and no step of an earlier run's task changes the scene records or
\* the success counter.
C6_PreviousRunSilenced ==
  [][ \A t \in DOMAIN tasks :
        (tasks[t].batch < batch /\ batch' = batch) =>
          /\ tasks[t].pc = "pending" => tasks'[t].pc \in {"pending", "dropped"}
          /\ (t \in InFlight /\ tasks'[t] # tasks[t]) =>
               (scenes' = scenes /\ genCount' = genCount) ]_vars

\* C7: tasks are invoked in the order they were pushed, and the jobs of one
\* run in scene order.
C7_Fifo ==
  \A i, j \in DOMAIN admitted :
    i < j =>
      /\ admitted[i] < admitted[j]
      /\ tasks[admitted[i]].batch = tasks[admitted[j]].batch =>
           tasks[admitted[i]].idx < tasks[admitted[j]].idx

C7_Witness ==
  /\ admitted = << 1, 2, 3 >>
  /\ max = 1
  /\ tasks[3].pc = "hash"

\* C8: no task is invoked twice, and an invoked task is no longer pending.
C8_AdmittedOnce ==
  /\ \A i, j \in DOMAIN admitted : admitted[i] = admitted[j] => i = j
  /\ \A i \in DOMAIN admitted :
       /\ tasks[admitted[i]].pc \notin {"pending", "dropped"}
       /\ \A k \in DOMAIN q : q[k] # admitted[i]

C8_Witness ==
  /\ Len(admitted) = 2
  /\ batch = 2
  /\ cancelled # {}
  /\ \A t \in DOMAIN tasks : Settled(tasks[t])

\* every job with prompt p has ended, none had a failed attempt, and every
\* image obtained was stored
CleanRun(p) ==
  \A t \in DOMAIN tasks :
    tasks[t].prompt = p =>
      /\ tasks[t].pc = "done"
      /\ tasks[t].retryCount >= 0
      /\ tasks[t].errorMsg = Null
      /\ tasks[t].calls > 0 => tasks[t].stored

SameKey(p) == { t \in DOMAIN tasks : tasks[t].prompt = p }

\* one image call in all, every job in success with the same image
OneCallSameResult(p) ==
  /\ Cardinality({ t \in SameKey(p) : tasks[t].calls > 0 }) = 1
  /\ \A t \in SameKey(p) : tasks[t].calls <= 1 /\ tasks[t].ok
  /\ \A t, u \in SameKey(p) :
       /\ tasks[t].imageUrl = tasks[u].imageUrl
       /\ SceneOf(t).status = "success"
       /\ SceneOf(t).image = SceneOf(u).image

\* C9 as stated: jobs of one run with the same prompt make one image call in
\* all and end in success with equal results, under any ceiling.
C9_OneCallAnyCeiling ==
  \A p \in Prompts :
    (Cardinality(SameKey(p)) >= 2 /\ CleanRun(p)) => OneCallSameResult(p)

\* C9 as amended: that holds when the ceiling is 1, so that the jobs run one
\* after the other.
C9_OneCallWhenSequential ==
  \A p \in Prompts :
    (max = 1 /\ Cardinality(SameKey(p)) >= 2 /\ CleanRun(p)) => OneCallSameResult(p)

C9_Witness ==
  \E p \in Prompts :
    /\ max = 1
    /\ Cardinality(SameKey(p)) = 2
    /\ CleanRun(p)
    /\ OneCallSameResult(p)

\* C10: after a task has rejected, running still counts exactly the invoked
\* tasks that have not settled, and no task waits while a slot is free.
C10_RejectionContained ==
  (\E t \in DOMAIN tasks : tasks[t].pc = "rejected") =>
    /\ running = Cardinality(InFlight)
    /\ q = << >> \/ running >= max

C10_Witness ==
  \E t, u \in DOMAIN tasks :
    /\ max = 1
    /\ t < u
    /\ tasks[t].pc = "rejected"
    /\ tasks[u].pc = "done"
    /\ tasks[u].ok
    /\ running = 0

\* the job missed the cache, used up its retries and ended in error
ExhaustedError(t) ==
  /\ tasks[t].pc = "done"
  /\ ~tasks[t].ok
  /\ tasks[t].retryCount >= 0
  /\ tasks[t].calls = tasks[t].retryCount + 1

\* the job was invoked and has ended, its record in success or error
Ended(t) ==
  /\ Settled(tasks[t])
  /\ \E i \in DOMAIN admitted : admitted[i] = t
  /\ SceneOf(t).status \in {"success", "error"}

\* C11: once a job has ended in error after exhausting its retries, and
\* Cancel is not clicked, every job of the run is eventually invoked and
\* reaches success or error, as long as its awaits settle.
C11_SiblingsFinish ==
  ((\E t \in DOMAIN tasks : ExhaustedError(t)) /\ cancelled = {})
    ~> (cancelled # {} \/ \A u \in DOMAIN tasks : Ended(u))

C11_Witness ==
  /\ max = 1
  /\ cancelled = {}
  /\ Len(tasks) = 3
  /\ ExhaustedError(1)
  /\ tasks[1].retryCount = 1
  /\ \A u \in {2, 3} : Ended(u) /\ tasks[u].ok

\* the job obtained an image and its idb.set stored nothing
StoreFailed(t) ==
  /\ Settled(tasks[t])
  /\ tasks[t].calls > 0
  /\ tasks[t].imageUrl # Null
  /\ ~tasks[t].stored

\* the job resolved from the cache: success without an image call
CacheHit(t) == Settled(tasks[t]) /\ tasks[t].ok /\ tasks[t].calls = 0

\* C12: a job whose image call succeeded and whose cache store failed ends
\* in success with its image and its task resolves; and while no job of a key
\* has stored, the key is absent and no job of that key resolves from the cache.
C12_StoreFailureTolerated ==
  /\ \A t \in DOMAIN tasks :
       StoreFailed(t) =>
         /\ tasks[t].pc = "done"
         /\ tasks[t].ok
         /\ SceneOf(t).status = "success"
         /\ SceneOf(t).image = tasks[t].imageUrl
         /\ SceneOf(t).error = Null
  /\ \A p \in Prompts :
       (\A t \in SameKey(p) : ~tasks[t].stored) =>
         /\ idbGet(cache, ckeyOf(p)) = Null
         /\ \A u \in SameKey(p) : ~CacheHit(u)

C12_Witness ==
  \E t, u \in DOMAIN tasks :
    /\ max = 1
    /\ t < u
    /\ tasks[t].prompt = tasks[u].prompt
    /\ StoreFailed(t)
    /\ SceneOf(t).status = "success"
    /\ tasks[u].pc = "done"
    /\ tasks[u].calls = 1
    /\ tasks[u].ok

\* C14: when a job that was generating at Cancel time finishes, the success
\* counter (and with it the average) does not change and the job's record
\* does not turn to success or error.
C14_CancelledOutcomeHidden ==
  [][ \A t \in genAtCancel :
        (~Settled(tasks[t]) /\ Settled(tasks'[t])) =>
          /\ genCount' = genCount
          /\ scenes'[tasks[t].idx].status \notin {"success", "error"} ]_vars

\* C15: a scene record in success or error is not changed by any step of a
\* job runner (a step that neither starts a run nor resets the storyboard),
\* runners of an earlier or cancelled run included.
C15_TerminalFinal ==
  [][ (batch' = batch /\ DOMAIN scenes' = DOMAIN scenes) =>
        \A i \in DOMAIN scenes :
          scenes[i].status \in {"success", "error"} => scenes'[i] = scenes[i] ]_vars

\* the transition table as specified
SpecTable ==
  { << "queued", "starting" >>, << "starting", "success" >>,
    << "starting", "generating" >>, << "generating", "success" >>,
    << "generating", "retrying" >>, << "retrying", "generating" >>,
    << "generating", "error" >>, << "retrying", "error" >> }

\* the transitions the closure's update calls make
CodeTable ==
  { << "queued", "starting" >>, << "starting", "success" >>,
    << "starting", "generating" >>, << "starting", "error" >>,
    << "generating", "success" >>, << "generating", "retrying" >>,
    << "retrying", "success" >>,
    << "generating", "error" >>, << "retrying", "error" >> }

\* every change of a scene's status in this step is in the table
Follows(table) ==
  \A i \in DOMAIN scenes :
    (i \in DOMAIN scenes' /\ scenes'[i].status # scenes[i].status) =>
      << scenes[i].status, scenes'[i].status >> \in table

C18_ResultErrorExclusive ==
  \A i \in DOMAIN scenes :
    /\ ~(scenes[i].image # Null /\ scenes[i].error # Null)
    /\ scenes[i].status \in {"queued", "starting", "generating", "retrying"} =>
         (scenes[i].image = Null /\ scenes[i].error = Null)
    /\ scenes[i].image # Null => scenes[i].status = "success"
    /\ scenes[i].error # Null => scenes[i].status = "error"

\* C19: a step that lowers the ceiling changes neither running nor any task
\* nor the pending list; and whenever a step invokes pending tasks, running
\* was below the ceiling in force and does not exceed it afterwards.
C19_LoweringThrottles ==
  [][ /\ max' < max =>
           /\ running' = running
           /\ tasks' = tasks
           /\ q' = q
           /\ admitted' = admitted
      /\ Len(admitted') > Len(admitted) =>
           /\ running' <= max'
           /\ running' - (Len(admitted') - Len(admitted)) < max' ]_vars

C19_Witness ==
  /\ max = 1
  /\ running = 2
  /\ Cardinality(InFlight) = 2
  /\ Len(q) = 1
  /\ cancelled = {}

Min(a, b) == IF a < b THEN a ELSE b

\* this step invokes exactly the first n pending tasks, in order, and nothing
\* else happens to any task
Admits(n) ==
  /\ running' = running + n
  /\ admitted' = admitted \o SubSeq(q, 1, n)
  /\ q' = SubSeq(q, n + 1, Len(q))
  /\ \A t \in DOMAIN tasks :
       tasks'[t] = IF \E i \in 1..n : q[i] = t
                   THEN [ tasks[t] EXCEPT !.pc = "hash" ]
                   ELSE tasks[t]

\* C20 as stated: a step that raises the ceiling to k' while tasks are
\* pending invokes min(pending, k' - running) of them, head first.
C20_RaisingAdmits ==
  [][ (max' > max /\ q # << >>) => Admits(Min(Len(q), max' - running)) ]_vars

\* C20 as amended: it invokes min(pending, k' - running) of them when running
\* is at most k', and none when more than k' tasks are still running.
C20_RaisingAdmitsFreeSlots ==
  [][ (max' > max /\ q # << >>) =>
        Admits(IF running > max' THEN 0 ELSE Min(Len(q), max' - running)) ]_vars

C20_Witness ==
  /\ max = 3
  /\ running = 3
  /\ admitted = << 1, 2, 3 >>
  /\ q = << 4 >>
  /\ tasks[1].pc = "call"
  /\ tasks[2].pc = "call"
  /\ tasks[3].pc = "hash"

\* retryDelay * (1 + 2 + ... + n)
RECURSIVE LinearSum(_, _)
LinearSum(rd, n) == IF n <= 0 THEN 0 ELSE rd * n + LinearSum(rd, n - 1)

\* C13: a job waiting before attempt k (k >= 2) waits retryDelay * (k-1); the
\* backoff spent after f failed attempts is retryDelay * (1 + ... + f) while a
\* retry remains and retryDelay * (1 + ... + retryCount) once the last attempt
\* has failed; with retryCount = 2 and retryDelay = 100 an always-failing job
\* ends in error after 3 attempts with 100 + 200 ms of backoff.
C13_LinearBackoff ==
  \A t \in DOMAIN tasks :
    LET tk == tasks[t] IN
    /\ tk.pc = "sleep" =>
         /\ tk.attempt + 1 >= 2
         /\ tk.delay = tk.retryDelay * ((tk.attempt + 1) - 1)
         /\ tk.slept = LinearSum(tk.retryDelay, tk.attempt)
    /\ (tk.pc = "done" /\ ~tk.ok /\ tk.retryCount >= 0 /\ tk.calls > 0) =>
         /\ tk.calls = tk.retryCount + 1
         /\ tk.slept = LinearSum(tk.retryDelay, tk.retryCount)
    /\ (tk.pc = "done" /\ ~tk.ok /\ tk.retryCount = 2 /\ tk.retryDelay = 100
          /\ tk.calls > 0) =>
         /\ tk.calls = 3
         /\ SceneOf(t).tries = 3
         /\ tk.slept >= 100 + 200

C13_Witness ==
  /\ Len(tasks) = 1
  /\ tasks[1].retryCount = 2
  /\ tasks[1].retryDelay = 100
  /\ tasks[1].pc = "done"
  /\ ~tasks[1].ok
  /\ tasks[1].calls = 3
  /\ tasks[1].slept = 300
  /\ scenes[1].status = "error"

\* C21: a step that empties a non-empty pending list without invoking anything
\* (clear) leaves running, max and every task that was not pending unchanged;
\* and a task dropped by clear is never invoked: it stays dropped, out of the
\* pending list and out of the invocation order, with no image call.
C21_ClearFrame ==
  [][ /\ (q # << >> /\ q' = << >> /\ admitted' = admitted) =>
           /\ running' = running
           /\ max' = max
           /\ \A t \in DOMAIN tasks :
                IF \E i \in DOMAIN q : q[i] = t
                THEN tasks'[t] = [ tasks[t] EXCEPT !.pc = "dropped" ]
                ELSE tasks'[t] = tasks[t]
      /\ \A t \in DOMAIN tasks :
           tasks[t].pc = "dropped" =>
             /\ tasks'[t] = tasks[t]
             /\ tasks[t].calls = 0
             /\ \A i \in DOMAIN q' : q'[i] # t
             /\ \A i \in DOMAIN admitted' : admitted'[i] # t ]_vars

C21_Witness ==
  /\ Len(tasks) = 2
  /\ tasks[1].pc = "done"
  /\ tasks[1].ok
  /\ 1 \in cancelled
  /\ tasks[2].pc = "dropped"
  /\ running = 0
  /\ admitted = << 1 >>

SuccessScenes == { i \in DOMAIN scenes : scenes[i].status = "success" }

\* the sum of t1 - t0 over the scenes of S
RECURSIVE SumDuration(_)
SumDuration(S) ==
  IF S = {} THEN 0
  ELSE LET i == CHOOSE x \in S : TRUE
       IN  (scenes[i].t1 - scenes[i].t0) + SumDuration(S \ {i})

\* the latest t1 over the scenes of S
LastT1(S) == CHOOSE m \in { scenes[i].t1 : i \in S } :
               \A i \in S : scenes[i].t1 <= m

RoundsTo(e) ==
  LET twice == 2 * (total - completed) * avgMsPerImg.ms
      unit  == 1000 * avgMsPerImg.images
  IN  (2 * e - 1) * unit <= twice /\ twice < (2 * e + 1) * unit

\* at least one job has succeeded, some time after the run started
SomeSuccess == SuccessScenes # {} /\ avgMsPerImg.ms > 0

\* C23 as stated: ETA is unavailable until a job has succeeded; from then on
\* it is the rounded, non-negative (total - completed) * average / 1000, and
\* it is 0 exactly when completed = total.
C23_EtaZeroIffDone ==
  /\ SuccessScenes = {} => eta = NoEta
  /\ SomeSuccess =>
       /\ eta >= 0
       /\ RoundsTo(eta)
       /\ eta = 0 <=> completed = total

\* C23 as amended: it is 0 when completed = total and also whenever the
\* remaining jobs times the average come to less than half a second.
C23_EtaRounded ==
  /\ SuccessScenes = {} => eta = NoEta
  /\ SomeSuccess =>
       /\ eta >= 0
       /\ RoundsTo(eta)
       /\ completed = total => eta = 0
       /\ eta = 0 <=> (total - completed) * avgMsPerImg.ms * 2 < 1000 * avgMsPerImg.images

C23_Witness ==
  /\ SomeSuccess
  /\ completed = 1
  /\ total = 3
  /\ avgMsPerImg = [ ms |-> 3 * TimeUnit, images |-> 1 ]
  /\ eta = 1

\* three jobs under ceiling 2 have all ended; each made one image call that
\* succeeded, took one TimeUnit from starting to its end, and started as soon
\* as it was invoked: two at the start of the run, the third one TimeUnit later
ThreeJobsTwoWaves ==
  /\ max = 2
  /\ Len(tasks) = 3
  /\ \A t \in DOMAIN tasks :
       /\ tasks[t].pc = "done"
       /\ tasks[t].calls = 1
       /\ tasks[t].errorMsg = Null
       /\ SceneOf(t).t1 = SceneOf(t).t0 + TimeUnit
  /\ scenes[1].t0 = startedAt
  /\ scenes[2].t0 = startedAt
  /\ scenes[3].t0 = startedAt + TimeUnit

\* under ceiling 2 the third job stays pending while the first two are running
ThirdWaits ==
  (max = 2 /\ Len(tasks) = 3 /\ ~Settled(tasks[1]) /\ ~Settled(tasks[2])) =>
    tasks[3].pc = "pending"

\* all three in success after two TimeUnits of wall time
ThreeSucceeded ==
  /\ \A i \in DOMAIN scenes : scenes[i].status = "success"
  /\ completed = 3
  /\ genCount = 3
  /\ LastT1(SuccessScenes) - startedAt = 2 * TimeUnit

ApiKeyRejected == NumMsgs

\* task t's image call fails in this step with the API's rejection of the key
FailsKeyRejected(t) ==
  /\ t \in DOMAIN tasks'
  /\ tasks[t].pc = "call"
  /\ tasks'[t].batch = tasks[t].batch
  /\ tasks'[t].pc \in {"sleep", "done"}
  /\ ~tasks'[t].ok
  /\ tasks'[t].errorMsg = ApiKeyRejected

\* C25: a call that fails because the API key is rejected ends the job in
\* error at once: no sleep is started and no further attempt follows.
C25_ConfigErrorImmediate ==
  [][ \A t \in DOMAIN tasks :
        FailsKeyRejected(t) =>
          /\ tasks'[t].pc = "done"
          /\ tasks'[t].slept = tasks[t].slept
          /\ scenes'[tasks[t].idx].status = "error" ]_vars

\* task t's image call fails in this step and the loop will try again
FailsAndRetries(t) ==
  /\ t \in DOMAIN tasks'
  /\ tasks[t].pc = "call"
  /\ tasks'[t].batch = tasks[t].batch
  /\ tasks'[t].pc = "sleep"

\* C26: the task handed to the TaskQueue never rejects after an image call
\* was made; a failed call that is retried changes nothing outside the task
\* (queue, scene records, counters), and a scene record receives an error
\* message only together with the terminal status error.
C26_FailuresAbsorbed ==
  [][ /\ \A t \in DOMAIN tasks' :
           tasks'[t].pc = "rejected" => tasks'[t].calls = 0 /\ tasks'[t].errorMsg = Null
      /\ \A t \in DOMAIN tasks :
           FailsAndRetries(t) =>
             /\ tasks'[t].errorMsg # Null
             /\ << running, q, max, scenes, genCount, busy, finishedAt, cache >>' =
                  << running, q, max, scenes, genCount, busy, finishedAt, cache >>
      /\ \A i \in DOMAIN scenes \cap DOMAIN scenes' :
           (scenes'[i].error # scenes[i].error /\ scenes'[i].error # Null) =>
             scenes'[i].status = "error" ]_vars

\* a job that failed a call, slept and is calling again, its scene showing
\* retrying and no error, while the queue still counts it as running
C26_Witness ==
  \E t \in DOMAIN tasks :
    /\ tasks[t].pc = "call"
    /\ tasks[t].calls = 2
    /\ tasks[t].errorMsg # Null
    /\ tasks[t].batch = batch
    /\ SceneOf(t).status = "retrying"
    /\ SceneOf(t).error = Null
    /\ running >= 1

\* task t's lookup returns a cached image in this step
HitsCache(t) ==
  /\ tasks[t].pc = "get"
  /\ tasks'[t].pc = "done"
  /\ tasks'[t].ok
  /\ tasks'[t].calls = 0

NextNoIdb ==
  \/ GenerateOnce
  \/ \E t \in DOMAIN tasks : HashDone(t)
  \/ \E t \in DOMAIN tasks : GetDone(t)
  \/ \E t \in DOMAIN tasks : CallOk(t)
  \/ \E t \in DOMAIN tasks : CallFail(t)
  \/ \E t \in DOMAIN tasks : SleepDone(t)
  \/ \E t \in DOMAIN tasks : SetNotStored(t)

SpecNoIdb == InitBatch /\ [][NextNoIdb]_vars

\* C28: without IndexedDB the result of a job that succeeded through an image
\* call is still found by a later job with the same prompt, which makes no
\* image call.
C28_FallbackServes ==
  \A t1, t2 \in DOMAIN tasks :
    (InSequence(t1, t2) /\ tasks[t1].calls >= 1) => tasks[t2].calls = 0

\* a step of task t's closure within the current list of scene records
StepOf(t) ==
  /\ tasks[t].pc \notin {"pending", "done", "rejected"}
  /\ tasks'[t] # tasks[t]

\* C29: whenever scene records change during a run, the step is one job's and
\* only the record with that job's idx changes; when the job ends, that record
\* holds the job's own status, image, error message and end time.
C29_UpdatesKeyedById ==
  [][ (batch' = batch /\ DOMAIN scenes' = DOMAIN scenes /\ scenes' # scenes) =>
        \E t \in DOMAIN tasks :
          /\ StepOf(t)
          /\ \A i \in DOMAIN scenes : i # tasks[t].idx => scenes'[i] = scenes[i]
          /\ tasks'[t].pc = "call" => scenes'[tasks[t].idx].tries = tasks'[t].attempt
          /\ Settled(tasks'[t]) =>
               /\ scenes'[tasks[t].idx].status = (IF tasks'[t].ok THEN "success" ELSE "error")
               /\ scenes'[tasks[t].idx].image = tasks'[t].imageUrl
               /\ scenes'[tasks[t].idx].error = (IF tasks'[t].ok THEN Null ELSE tasks'[t].errorMsg)
               /\ scenes'[tasks[t].idx].t1 = now ]_vars

\* the last job of the list ended first: its record shows its image while
\* the first job's record still shows generating and no image
C29_Witness ==
  \E t, u \in DOMAIN tasks :
    /\ tasks[t].batch = batch
    /\ tasks[u].batch = batch
    /\ tasks[t].idx = 1
    /\ tasks[u].idx = Len(scenes)
    /\ Len(scenes) >= 2
    /\ tasks[t].pc = "call"
    /\ SceneOf(t).status = "generating"
    /\ SceneOf(t).image = Null
    /\ tasks[u].pc = "done"
    /\ tasks[u].ok
    /\ tasks[u].calls = 1
    /\ SceneOf(u).status = "success"
    /\ SceneOf(u).image = tasks[u].imageUrl

\* every job of the current run has ended in success
AllSucceeded ==
  /\ batch >= 1
  /\ \A t \in DOMAIN tasks :
       tasks[t].batch = batch => tasks[t].pc = "done" /\ tasks[t].ok
  /\ \A i \in DOMAIN scenes : scenes[i].status = "success"

\* C30: once every job of the run has ended in success, the run is marked
\* complete: busy is false and finishedAt is set.
C30_BatchMarkedComplete == AllSucceeded ~> (~busy /\ finishedAt # Null)

\* runs following one another on lists that Analyze replaces, never cancelled
NextRuns ==
  \/ AnalyzeStart
  \/ AnalyzeDone
  \/ GenerateRuns
  \/ \E t \in DOMAIN tasks : HashDone(t)
  \/ \E t \in DOMAIN tasks : GetDone(t)
  \/ \E t \in DOMAIN tasks : GetFail(t)
  \/ \E t \in DOMAIN tasks : CallOk(t)
  \/ \E t \in DOMAIN tasks : CallFail(t)
  \/ \E t \in DOMAIN tasks : SleepDone(t)
  \/ \E t \in DOMAIN tasks : SetStored(t)
  \/ \E t \in DOMAIN tasks : SetNotStored(t)

SpecRuns == Init /\ [][NextRuns]_vars

\* the run was marked complete: setFinishedAt(now()); setBusy(false)
MarkedComplete == batch >= 1 /\ ~busy /\ finishedAt # Null

\* C31: while the current run is marked complete, every one of its jobs has
\* ended in success.
C31_CompleteOnlyWhenAllSucceeded ==
  MarkedComplete =>
    \A t \in DOMAIN tasks :
      tasks[t].batch = batch => tasks[t].pc = "done" /\ tasks[t].ok

\* C32: a failed cache lookup counts as a miss: no task settles by rejecting,
\* and a job whose retry policy allows an attempt does not end in error
\* without having made an image call.
C32_LookupFailureIsMiss ==
  \A t \in DOMAIN tasks :
    /\ tasks[t].pc # "rejected"
    /\ (Settled(tasks[t]) /\ ~tasks[t].ok /\ tasks[t].retryCount >= 0) =>
         tasks[t].calls >= 1

\* uncancelled runs in which every pending await of a job eventually settles
SpecRunsFair == SpecRuns /\ \A t \in 1..MaxRunTasks : WF_vars(JobStep(t))

\* every submitted job has ended, the records of the current run showing
\* success or error, and the queue is idle
AllEndedIdle ==
  /\ \A t \in DOMAIN tasks :
       /\ JobState(tasks[t]) \in {"success", "error"}
       /\ tasks[t].batch = batch => scenes[tasks[t].idx].status \in {"success", "error"}
  /\ q = << >>
  /\ running = 0

\* C33: when no run is cancelled and every await of a job settles, every
\* submitted job eventually reaches success or error and the queue ends with
\* an empty pending list and running = 0.
C33_EveryJobEnds == (tasks # << >>) ~> AllEndedIdle

\* three jobs under ceiling 1 have all ended, one after retrying, one in
\* error, one whose lookup failed
C33_Witness ==
  /\ AllEndedIdle
  /\ Len(tasks) = MaxRunTasks
  /\ max = 1
  /\ \E t, u, v \in DOMAIN tasks :
       /\ tasks[t].ok /\ tasks[t].calls = 2
       /\ ~tasks[u].ok /\ tasks[u].calls >= 1
       /\ tasks[v].pc = "rejected"

\* C34: after every push, setMax call, clear and task completion, either the
\* pending list is empty or running has reached the ceiling.
C34_WorkConserving == q = << >> \/ running >= max

\* a task still waits behind a full ceiling of 1 after the first task has
\* settled and the second was admitted in its place
C34_Witness ==
  /\ q # << >>
  /\ max = 1
  /\ running = 1
  /\ Len(admitted) = 2
  /\ Settled(tasks[admitted[1]])
  /\ ~Settled(tasks[admitted[2]])

\* C35: running is the number of tasks that were invoked and have not
\* settled; it is never negative and is 0 when every invoked task has settled.
C35_RunningCountsUnsettled ==
  /\ running = Cardinality(InFlight)
  /\ running >= 0
  /\ (\A i \in DOMAIN admitted : Settled(tasks[admitted[i]])) => running = 0

\* running is back to 0 after one invoked task resolved and another rejected
C35_Witness ==
  /\ running = 0
  /\ Len(admitted) >= 2
  /\ \A i \in DOMAIN admitted : Settled(tasks[admitted[i]])
  /\ \E i, j \in DOMAIN admitted :
       tasks[admitted[i]].pc = "done" /\ tasks[admitted[j]].pc = "rejected"

\* uncancelled runs of one reviewed list, the image model changed at any time
NextModels ==
  \/ SetImageModel
  \/ GenerateRuns
  \/ \E t \in DOMAIN tasks : HashDone(t)
  \/ \E t \in DOMAIN tasks : GetDone(t)
  \/ \E t \in DOMAIN tasks : GetFail(t)
  \/ \E t \in DOMAIN tasks : CallOk(t)
  \/ \E t \in DOMAIN tasks : CallFail(t)
  \/ \E t \in DOMAIN tasks : SleepDone(t)
  \/ \E t \in DOMAIN tasks : SetStored(t)
  \/ \E t \in DOMAIN tasks : SetNotStored(t)

SpecModels == InitBatch /\ [][NextModels]_vars

C37_ErrorHasMessage ==
  \A t \in DOMAIN tasks :
    (Settled(tasks[t]) /\ ~tasks[t].ok /\ tasks[t].retryCount >= 0) =>
      /\ tasks[t].errorMsg \in Msgs
      /\ (tasks[t].batch = batch /\ SceneOf(t).status = "error") =>
           SceneOf(t).error \in Msgs

\* fetchJSON calls following one another
NextFetch ==
  \/ FetchCall
  \/ FetchResponse
  \/ FetchRejects
  \/ FetchSleepDone

SpecFetch == Init /\ [][NextFetch]_vars

\* the operations of src/App.jsx that set isProcessing
NextUi ==
  \/ SetApiKey
  \/ RunJobStart
  \/ RunJobEnd
  \/ DropStart
  \/ DropEnd

SpecUi == Init /\ [][NextUi]_vars

\* the last response the call received, if any
LastSeenIs(P(_)) == fj.seen # << >> /\ P(fj.seen[Len(fj.seen)])

NeitherOkNorRetryable(st) == ~ResOk(st) /\ ~Retryable(st)

\* C38: a fetchJSON call issues at most `retries` requests; every response
\* before the last was retryable; it returns exactly on an ok response,
\* throws the API's error right after a response that is neither ok nor
\* retryable, and throws "Network unstable" exactly after `retries` retryable
\* responses.
C38_AtMostRetriesRequests ==
  /\ fj.requests <= fj.retries
  /\ fj.requests =
       Len(fj.seen) + (IF fj.pc = "fetching" \/ fj.result = "TypeError" THEN 1 ELSE 0)
  /\ \A k \in 1..(Len(fj.seen) - 1) : Retryable(fj.seen[k])
  /\ (fj.pc = "returned") <=> LastSeenIs(ResOk)
  /\ (fj.result = "API error") <=> LastSeenIs(NeitherOkNorRetryable)
  /\ (fj.result = "API error") => fj.pc = "thrown"
  /\ (fj.result = "Network unstable") <=>
       /\ fj.pc = "thrown"
       /\ Len(fj.seen) = fj.retries
       /\ \A k \in DOMAIN fj.seen : Retryable(fj.seen[k])

\* the default of three requests was used up on 429 and 5xx responses
C38_Witness ==
  /\ fj.retries = DefaultRetries
  /\ fj.result = "Network unstable"
  /\ fj.requests = DefaultRetries
  /\ \E j, k \in DOMAIN fj.seen : fj.seen[j] = 429 /\ fj.seen[k] >= 500
  /\ fj.slept = 800 + 1360 + 2312

\* C39: isProcessing is true while a runJob operation is in flight, and at
\* most one runJob operation is in flight.
C39_ProcessingWhileJobRuns ==
  /\ ui.jobs # << >> => ui.isProcessing
  /\ Len(ui.jobs) <= 1

TypeOK ==
  /\ max \in 1..(MaxCeiling + 1)
  /\ running \in 0..(MaxScenes + MaxTasks)
  /\ genCount \in 0..(MaxScenes + MaxTasks)

====
